---- MODULE Spec2Model ----
(***************************************************************************)
(* Boss stages of space_rust (src/entities/boss/easy_stages.rs): the four  *)
(* stages Appear, SimpleShootingDown, SpreadShooting and Targeted, the     *)
(* bounce helper move_horizontally and the timed emitter shoot_down.       *)
(* Positions are pixels, times are milliseconds.                           *)
(***************************************************************************)
EXTENDS Integers, Sequences, FiniteSets, TLC

\* ---- program constants (easy_stages.rs:15-34) ----
APPEAR_MOVE_SPEED == 8
APPEAR_TARGET_HEIGHT == 50
SIMPLE_SHOOTING_STAGE_MOVE_SPEED == 12
SIMPLE_SHOOTING_STAGE_SHOOTING_INTERVAL == 300
SPREAD_SHOOTING_STAGE_MOVE_SPEED == 8
SPREAD_SHOOTING_STAGE_SHOOTING_INTERVAL == 500
SPREAD_SHOOTING_ANGLE_RANGE == 120
SPREAD_SHOOTING_ANGLE_STEP == 20
TARGETED_STAGE_MOVE_SPEED == 15
TARGETED_STAGE_SHOOTING_INTERVAL == 500
\* the f32 thresholds 0.7 and 0.4, in tenths
STAGE_1_FINISH_HP_THRESHOLD == 7
STAGE_2_FINISH_HP_THRESHOLD == 4
BOSS_DAMAGE == 10
ANGLE_DOWN == 180

\* ---- bounds of the model ----
\* side of the boss's square shape
BossWidth == 10
\* right edge of the wide screen and of a screen too narrow to bounce in
ScreenWidth == 60
NarrowWidth == 30
ScreenHeight == 90
\* how far outside the screen boss and ship positions are drawn
Margin == 18
\* last clock value at which a poll is made
MaxTime == 1500
\* the boss's full health, in hit points
MaxHp == 10

\* ---- external collaborators (crate::globals, crate::entities) ----
\* globals::screen_rect(): top_left and bottom_right corners
ScreenRect(width) ==
  [top_left |-> [x |-> 0, y |-> 0], bottom_right |-> [x |-> width, y |-> ScreenHeight]]

Screens == {ScreenRect(ScreenWidth), ScreenRect(NarrowWidth)}

\* the room the boss has to move in: screen width minus boss width
slack(rect) == rect.bottom_right.x - rect.top_left.x - BossWidth

\* the wide screen and screens whose slack is around twice a bounce speed
BounceScreens ==
  {ScreenRect(ScreenWidth)} \cup
  {ScreenRect(BossWidth + s) :
     s \in (2 * SPREAD_SHOOTING_STAGE_MOVE_SPEED - 3)..(2 * SIMPLE_SHOOTING_STAGE_MOVE_SPEED)}

\* Boss::width()
width == BossWidth

\* Boss::center(): the middle of the square whose top-left corner is pos
center(pos) == [x |-> pos.x + width \div 2, y |-> pos.y + width \div 2]

\* Shape::in_rect: the whole square lies inside the rectangle
in_rect(pos, rect) ==
  /\ rect.top_left.x <= pos.x
  /\ pos.x + width <= rect.bottom_right.x
  /\ rect.top_left.y <= pos.y
  /\ pos.y + width <= rect.bottom_right.y

\* horizontal part of in_rect
in_rect_x(x, rect) == rect.top_left.x <= x /\ x + width <= rect.bottom_right.x

\* i32::abs
abs(n) == IF n < 0 THEN -n ELSE n

\* i32::clamp(min, max)
clamp(v, lo, hi) == IF v < lo THEN lo ELSE IF v > hi THEN hi ELSE v

\* Boss::hp_percent() < tenths / 10, for a boss with hp of MaxHp hit points left
hp_percent_below(hp, tenths) == hp * 10 < tenths * MaxHp

hp_percent_at_most(hp, tenths) == hp * 10 <= tenths * MaxHp

\* ---- Direction (easy_stages.rs:38-42) ----
Direction == {"Left", "Right"}

\* ---- Targeted::calc_new_pos (easy_stages.rs:197-219) ----
\* snaps the boss's corner, not its centre, onto the ship
Targeted_track_uncentred(pos, ship_c) ==
  LET diff_x == center(pos).x - ship_c.x
  IN  IF abs(diff_x) < TARGETED_STAGE_MOVE_SPEED
      THEN ship_c.x
      ELSE pos.x + (IF diff_x > 0 THEN TARGETED_STAGE_MOVE_SPEED
                                  ELSE -TARGETED_STAGE_MOVE_SPEED)

\* never snaps
Targeted_track_nosnap(pos, ship_c) ==
  LET diff_x == center(pos).x - ship_c.x
  IN  pos.x + (IF diff_x > 0 THEN TARGETED_STAGE_MOVE_SPEED
                             ELSE -TARGETED_STAGE_MOVE_SPEED)

\* the tracking step, lines 198-211: x before the clamp
Targeted_track(pos, ship_c) ==
  LET diff_x == center(pos).x - ship_c.x
  IN  IF abs(diff_x) < TARGETED_STAGE_MOVE_SPEED
      THEN ship_c.x - width \div 2
      ELSE pos.x + (IF diff_x > 0 THEN TARGETED_STAGE_MOVE_SPEED
                                  ELSE -TARGETED_STAGE_MOVE_SPEED)

Targeted_calc_new_pos_noclamp(pos, ship_c, rect) ==
  [x |-> Targeted_track(pos, ship_c), y |-> pos.y]

Targeted_calc_new_pos(pos, ship_c, rect) ==
  [x |-> clamp(Targeted_track(pos, ship_c), rect.top_left.x, rect.bottom_right.x),
   y |-> pos.y]

\* ---- move_horizontally (easy_stages.rs:44-63) ----
flip(dir) == IF dir = "Left" THEN "Right" ELSE "Left"

move_horizontally_noreflect(dir, pos, move_speed, rect) ==
  LET x_offset == IF dir = "Left" THEN -move_speed ELSE move_speed
      new_pos == [pos EXCEPT !.x = pos.x + x_offset]
  IN  [pos |-> new_pos,
       direction |-> IF ~in_rect(new_pos, rect) THEN flip(dir) ELSE dir]

\* reflects the rejected candidate but keeps the direction
move_horizontally_noflip(dir, pos, move_speed, rect) ==
  LET x_offset == IF dir = "Left" THEN -move_speed ELSE move_speed
      new_pos == [pos EXCEPT !.x = pos.x + x_offset]
  IN  IF ~in_rect(new_pos, rect)
      THEN [pos |-> [new_pos EXCEPT !.x = new_pos.x - x_offset * 2], direction |-> dir]
      ELSE [pos |-> new_pos, direction |-> dir]

\* takes back the rejected candidate instead of reflecting it
move_horizontally_stay(dir, pos, move_speed, rect) ==
  LET x_offset == IF dir = "Left" THEN -move_speed ELSE move_speed
      new_pos == [pos EXCEPT !.x = pos.x + x_offset]
  IN  IF ~in_rect(new_pos, rect)
      THEN [pos |-> [new_pos EXCEPT !.x = new_pos.x - x_offset], direction |-> flip(dir)]
      ELSE [pos |-> new_pos, direction |-> dir]

\* returns the position and the direction the stage is left with
move_horizontally(dir, pos, move_speed, rect) ==
  LET x_offset == IF dir = "Left" THEN -move_speed ELSE move_speed
      new_pos == [pos EXCEPT !.x = pos.x + x_offset]
  IN  IF ~in_rect(new_pos, rect)
      THEN [pos |-> [new_pos EXCEPT !.x = new_pos.x - x_offset * 2],
            direction |-> flip(dir)]
      ELSE [pos |-> new_pos, direction |-> dir]

\* SimpleShootingDown::calc_new_pos (123-125), SpreadShooting::calc_new_pos (153-155)
move_speed_of(st) ==
  IF st = "Simple" THEN SIMPLE_SHOOTING_STAGE_MOVE_SPEED
                   ELSE SPREAD_SHOOTING_STAGE_MOVE_SPEED

\* ---- AppearStage (easy_stages.rs:86-104) ----
AppearStage_completed_at_target(pos) == pos.y >= APPEAR_TARGET_HEIGHT

AppearStage_completed(pos) == pos.y > APPEAR_TARGET_HEIGHT

\* keeps descending past the target
AppearStage_calc_new_pos_always(pos) == [pos EXCEPT !.y = pos.y + APPEAR_MOVE_SPEED]

AppearStage_calc_new_pos(pos) ==
  IF ~AppearStage_completed(pos)
  THEN [pos EXCEPT !.y = pos.y + APPEAR_MOVE_SPEED]
  ELSE pos

\* ---- completed of the other stages (lines 131-133, 177-179, 225-227) ----
SimpleShootingDown_completed_inclusive(hp) ==
  hp_percent_at_most(hp, STAGE_1_FINISH_HP_THRESHOLD)

SimpleShootingDown_completed(hp) == hp_percent_below(hp, STAGE_1_FINISH_HP_THRESHOLD)

SpreadShooting_completed(hp) == hp_percent_below(hp, STAGE_2_FINISH_HP_THRESHOLD)

\* completes once the boss is dead
Targeted_completed_when_dead(hp) == hp <= 0

Targeted_completed(hp) == FALSE

stage_completed(st, pos, hp) ==
  IF st = "Appear" THEN AppearStage_completed(pos)
  ELSE IF st = "Simple" THEN SimpleShootingDown_completed(hp)
  ELSE IF st = "Spread" THEN SpreadShooting_completed(hp)
  ELSE Targeted_completed(hp)

\* the driver's fixed order of stages
next_stage(st) ==
  IF st = "Appear" THEN "Simple"
  ELSE IF st = "Simple" THEN "Spread"
  ELSE "Targeted"

\* ---- SimpleShootingDown::new, SpreadShooting::new, Targeted::new ----
\* (lines 113-120, 143-150, 188-194); t is what Instant::now() returns
stage_new_epoch(t) == [direction |-> "Right", shoot_time |-> 0]

stage_new(t) == [direction |-> "Right", shoot_time |-> t]

\* ---- Option<Vec<Shot>> ----
None == [some |-> FALSE, v |-> <<>>]
Some(v) == [some |-> TRUE, v |-> v]

\* ---- make_boss_shot (easy_stages.rs:79-82) ----
make_boss_shot(pos, angle) ==
  [pos |-> center(pos), angle |-> angle, damage |-> BOSS_DAMAGE]

\* ---- shoot_down (easy_stages.rs:67-77), t is what Instant::now() returns ----
shoot_down_strict(st_time, pos, shooting_interval, t) ==
  IF st_time + shooting_interval < t
  THEN [shoot_time |-> t, ret |-> Some(<<make_boss_shot(pos, ANGLE_DOWN)>>)]
  ELSE [shoot_time |-> st_time, ret |-> None]

\* fires without stamping the fire time
shoot_down_nostamp(st_time, pos, shooting_interval, t) ==
  IF st_time + shooting_interval <= t
  THEN [shoot_time |-> st_time, ret |-> Some(<<make_boss_shot(pos, ANGLE_DOWN)>>)]
  ELSE [shoot_time |-> st_time, ret |-> None]

\* stamps last-fire + interval instead of the time of the poll
shoot_down_drift(st_time, pos, shooting_interval, t) ==
  IF st_time + shooting_interval <= t
  THEN [shoot_time |-> st_time + shooting_interval,
        ret |-> Some(<<make_boss_shot(pos, ANGLE_DOWN)>>)]
  ELSE [shoot_time |-> st_time, ret |-> None]

\* stamps the time of every poll, firing or not
shoot_down_stamp_always(st_time, pos, shooting_interval, t) ==
  IF st_time + shooting_interval <= t
  THEN [shoot_time |-> t, ret |-> Some(<<make_boss_shot(pos, ANGLE_DOWN)>>)]
  ELSE [shoot_time |-> t, ret |-> None]

shoot_down(st_time, pos, shooting_interval, t) ==
  IF st_time + shooting_interval <= t
  THEN [shoot_time |-> t, ret |-> Some(<<make_boss_shot(pos, ANGLE_DOWN)>>)]
  ELSE [shoot_time |-> st_time, ret |-> None]

\* ---- SpreadShooting::shoot (easy_stages.rs:157-175) ----
\* (from..=to).step_by(step)
RECURSIVE step_by(_, _, _)
step_by(from, to, step) ==
  IF from > to THEN <<>> ELSE <<from>> \o step_by(from + step, to, step)

\* (from..to).step_by(step)
RECURSIVE step_by_exclusive(_, _, _)
step_by_exclusive(from, to, step) ==
  IF from >= to THEN <<>> ELSE <<from>> \o step_by_exclusive(from + step, to, step)

spread_angles_exclusive ==
  step_by_exclusive(ANGLE_DOWN - SPREAD_SHOOTING_ANGLE_RANGE \div 2,
                    ANGLE_DOWN + SPREAD_SHOOTING_ANGLE_RANGE \div 2,
                    SPREAD_SHOOTING_ANGLE_STEP)

\* lines 165-169: the angles the loop runs over
spread_angles ==
  step_by(ANGLE_DOWN - SPREAD_SHOOTING_ANGLE_RANGE \div 2,
          ANGLE_DOWN + SPREAD_SHOOTING_ANGLE_RANGE \div 2,
          SPREAD_SHOOTING_ANGLE_STEP)

SpreadShooting_shoot(st_time, pos, t) ==
  IF st_time + SPREAD_SHOOTING_STAGE_SHOOTING_INTERVAL > t
  THEN [shoot_time |-> st_time, ret |-> None]
  ELSE [shoot_time |-> t,
        ret |-> Some([i \in 1..Len(spread_angles) |->
                        make_boss_shot(pos, spread_angles[i])])]

\* the interval each shooting stage passes or uses (lines 128, 159, 222)
shooting_interval_of(st) ==
  IF st = "Simple" THEN SIMPLE_SHOOTING_STAGE_SHOOTING_INTERVAL
  ELSE IF st = "Spread" THEN SPREAD_SHOOTING_STAGE_SHOOTING_INTERVAL
  ELSE TARGETED_STAGE_SHOOTING_INTERVAL

\* SimpleShootingDown::shoot (127-129), SpreadShooting::shoot, Targeted::shoot (221-223)
stage_shoot(st, st_time, pos, t) ==
  IF st = "Spread" THEN SpreadShooting_shoot(st_time, pos, t)
  ELSE shoot_down(st_time, pos, shooting_interval_of(st), t)

VARIABLES
  stage,          \* the active stage: "Appear", "Simple", "Spread", "Targeted"
  direction,      \* the stage's direction field
  shoot_time,     \* the stage's shoot_time field
  boss_pos,       \* Boss::pos()
  ship_center,    \* Ship::center()
  screen,         \* what screen_rect() returns
  op,             \* the operation that ran last
  by,             \* the stage that ran it
  old_pos,        \* the boss position the last calc_new_pos was given
  old_direction,  \* the direction before the last calc_new_pos
  now,            \* the last value read from the clock
  shots,          \* what the last shoot returned
  old_shoot_time, \* shoot_time before the last shoot
  poll,           \* the last shoot of this stage instance: its time, whether it fired
  prev_poll,      \* the shoot before that
  fired_at,       \* the times at which this stage instance fired
  n_polls,        \* the number of shoot calls on this stage instance
  boss_hp,        \* the boss's hit points; hp_percent() is boss_hp / MaxHp
  done,           \* what the last completed returned
  pc,             \* the driver's position in the tick
  appear_ticks,   \* the number of AppearStage::calc_new_pos calls so far
  spawn_pos,      \* the position the boss started at
  built_at        \* the time at which the active stage was constructed

stageVars == <<stage, direction, shoot_time>>
envVars == <<ship_center, screen>>
moveHist == <<old_pos, old_direction>>
pollHist == <<shots, old_shoot_time, poll, prev_poll, fired_at, n_polls>>
drvHist == <<done, appear_ticks, spawn_pos, built_at>>
vars == <<stage, direction, shoot_time, boss_pos, ship_center, screen, op, by,
          old_pos, old_direction, now, shots, old_shoot_time, poll, prev_poll,
          fired_at, n_polls, boss_hp, done, pc, appear_ticks, spawn_pos, built_at>>

NoPoll == [t |-> 0, fired |-> FALSE]

\* ---- positions the inputs are drawn from ----
XRange == (0 - Margin)..(ScreenWidth + Margin)
ShipXs == {sx \in XRange : sx % 7 = 0} \cup {0 - 20 * Margin, ScreenWidth + 20 * Margin}
BossYs == {51, 56}
ShipY == ScreenHeight - BossWidth

\* ---- the stages' operations; the driver applies the returned position ----
BounceCalcNewPos(st) ==
  LET r == move_horizontally(direction, boss_pos, move_speed_of(st), screen)
  IN  /\ stage = st
      /\ boss_pos' = r.pos
      /\ direction' = r.direction
      /\ old_pos' = boss_pos
      /\ old_direction' = direction
      /\ op' = "calc_new_pos"
      /\ by' = st
      /\ UNCHANGED <<stage, shoot_time, envVars, now, pollHist, boss_hp, drvHist>>

SimpleCalcNewPos == BounceCalcNewPos("Simple")

SpreadCalcNewPos == BounceCalcNewPos("Spread")

TargetedCalcNewPos ==
  /\ stage = "Targeted"
  /\ boss_pos' = Targeted_calc_new_pos(boss_pos, ship_center, screen)
  /\ old_pos' = boss_pos
  /\ old_direction' = direction
  /\ op' = "calc_new_pos"
  /\ by' = "Targeted"
  /\ UNCHANGED <<stageVars, envVars, now, pollHist, boss_hp, drvHist>>

\* the player moves the ship
ShipMoveTo(sx) ==
  /\ ship_center' = [ship_center EXCEPT !.x = sx]
  /\ ship_center' # ship_center
  /\ op' = "ship"
  /\ UNCHANGED <<stageVars, boss_pos, screen, by, moveHist, now, pollHist,
                 boss_hp, drvHist>>

\* the boss is hit and loses d hit points
Damage(d) ==
  /\ boss_hp > 0
  /\ boss_hp' = IF boss_hp > d THEN boss_hp - d ELSE 0
  /\ op' = "damage"
  /\ UNCHANGED <<stageVars, boss_pos, envVars, by, moveHist, now, pollHist, drvHist>>

AppearCalcNewPos ==
  /\ stage = "Appear"
  /\ boss_pos' = AppearStage_calc_new_pos(boss_pos)
  /\ appear_ticks' = appear_ticks + 1
  /\ old_pos' = boss_pos
  /\ old_direction' = direction
  /\ op' = "calc_new_pos"
  /\ by' = "Appear"
  /\ UNCHANGED <<stageVars, envVars, now, pollHist, boss_hp, done, spawn_pos, built_at>>

\* AppearStage::shoot (97-99): no clock read, no shot
AppearShoot ==
  /\ stage = "Appear"
  /\ shots' = None
  /\ op' = "shoot"
  /\ by' = "Appear"
  /\ UNCHANGED <<stageVars, boss_pos, envVars, moveHist, now, old_shoot_time,
                 poll, prev_poll, fired_at, n_polls, boss_hp, drvHist>>

\* completed of the active stage; when it holds the driver replaces the stage
\* by a new instance of the next one, constructed dc after the last clock read
StageCompleted(st, dc) ==
  LET c == stage_completed(st, boss_pos, boss_hp)
  IN  /\ stage = st
      /\ done' = c
      /\ op' = "completed"
      /\ by' = st
      /\ IF c
         THEN /\ stage' = next_stage(st)
              /\ now' = now + dc
              /\ direction' = stage_new(now + dc).direction
              /\ shoot_time' = stage_new(now + dc).shoot_time
              /\ built_at' = now + dc
              /\ poll' = NoPoll /\ prev_poll' = NoPoll
              /\ fired_at' = <<>> /\ n_polls' = 0
              /\ UNCHANGED <<shots, old_shoot_time>>
         ELSE UNCHANGED <<stageVars, now, pollHist, built_at>>
      /\ UNCHANGED <<boss_pos, boss_hp, envVars, moveHist, appear_ticks, spawn_pos>>

AppearCompleted(dc) == StageCompleted("Appear", dc)

SimpleCompleted(dc) == StageCompleted("Simple", dc)

SpreadCompleted(dc) == StageCompleted("Spread", dc)

TargetedCompleted(dc) == StageCompleted("Targeted", dc)

\* shoot of a shooting stage; the clock has advanced by dt since it was last read
StageShoot(st, dt) ==
  LET t == now + dt
      r == stage_shoot(st, shoot_time, boss_pos, t)
  IN  /\ stage = st
      /\ now' = t
      /\ shoot_time' = r.shoot_time
      /\ shots' = r.ret
      /\ old_shoot_time' = shoot_time
      /\ prev_poll' = poll
      /\ poll' = [t |-> t, fired |-> r.ret.some]
      /\ fired_at' = IF r.ret.some THEN Append(fired_at, t) ELSE fired_at
      /\ n_polls' = n_polls + 1
      /\ op' = "shoot"
      /\ by' = st
      /\ UNCHANGED <<stage, direction, boss_pos, envVars, moveHist, boss_hp, drvHist>>

SimpleShoot(dt) == StageShoot("Simple", dt)

SpreadShoot(dt) == StageShoot("Spread", dt)

TargetedShoot(dt) == StageShoot("Targeted", dt)

\* ---- Targeted stage, any boss and ship position ----
InitTargeted ==
  /\ stage = "Targeted"
  /\ direction = "Right"
  /\ shoot_time = 0
  /\ boss_pos \in [x : XRange, y : BossYs]
  /\ ship_center \in [x : ShipXs, y : {ShipY}]
  /\ screen \in Screens
  /\ op = "new" /\ by = stage
  /\ old_pos = boss_pos /\ old_direction = direction
  /\ now = 0 /\ shots = None /\ old_shoot_time = 0
  /\ poll = NoPoll /\ prev_poll = NoPoll /\ fired_at = <<>> /\ n_polls = 0
  /\ boss_hp = MaxHp /\ done = FALSE /\ pc = "any"
  /\ appear_ticks = 0 /\ built_at = 0 /\ spawn_pos = [x |-> 0, y |-> 0]

TrackStep == TargetedCalcNewPos /\ UNCHANGED pc

ShipMove == (\E sx \in ShipXs : ShipMoveTo(sx)) /\ UNCHANGED pc

NextTargeted == TrackStep \/ ShipMove

SpecTargeted == InitTargeted /\ [][NextTargeted]_vars

\* ---- Targeted stage, the ship stays where the boss can be centred over it ----
InitTrackFixed ==
  /\ InitTargeted
  /\ in_rect_x(boss_pos.x, screen)
  /\ in_rect_x(ship_center.x - width \div 2, screen)

\* the driver calls calc_new_pos on every tick
SpecTrackFixed == InitTrackFixed /\ [][TrackStep]_vars /\ WF_vars(TrackStep)

\* ---- the bouncing stages, any position inside the screen, any direction ----
InitBounce ==
  /\ stage \in {"Simple", "Spread"}
  /\ direction \in Direction
  /\ shoot_time = 0
  /\ screen \in BounceScreens
  /\ boss_pos \in [x : 0..ScreenWidth, y : BossYs]
  /\ in_rect(boss_pos, screen)
  /\ ship_center = [x |-> 0, y |-> ShipY]
  /\ op = "new" /\ by = stage
  /\ old_pos = boss_pos /\ old_direction = direction
  /\ now = 0 /\ shots = None /\ old_shoot_time = 0
  /\ poll = NoPoll /\ prev_poll = NoPoll /\ fired_at = <<>> /\ n_polls = 0
  /\ boss_hp = MaxHp /\ done = FALSE /\ pc = "any"
  /\ appear_ticks = 0 /\ built_at = 0 /\ spawn_pos = [x |-> 0, y |-> 0]

BounceSimple == SimpleCalcNewPos /\ UNCHANGED pc

BounceSpread == SpreadCalcNewPos /\ UNCHANGED pc

NextBounce == BounceSimple \/ BounceSpread

SpecBounce == InitBounce /\ [][NextBounce]_vars

\* ---- a shooting stage polled at any times ----
\* the most shoot calls made on one stage instance
MaxPolls == 5
\* clock advance between two polls
Gaps == {0, 100, 299, 300, 499, 500, 700}

InitShoot ==
  /\ stage \in {"Simple", "Spread", "Targeted"}
  /\ direction = "Right"
  /\ shoot_time = 0
  /\ screen = ScreenRect(ScreenWidth)
  /\ boss_pos \in [x : {0, 17}, y : {51}]
  /\ ship_center = [x |-> 0, y |-> ShipY]
  /\ op = "new" /\ by = stage
  /\ old_pos = boss_pos /\ old_direction = direction
  /\ now = 0 /\ shots = None /\ old_shoot_time = 0
  /\ poll = NoPoll /\ prev_poll = NoPoll /\ fired_at = <<>> /\ n_polls = 0
  /\ boss_hp = MaxHp /\ done = FALSE /\ pc = "any"
  /\ appear_ticks = 0 /\ built_at = 0 /\ spawn_pos = [x |-> 0, y |-> 0]

PollSimple ==
  \E dt \in Gaps :
    n_polls < MaxPolls /\ now + dt <= MaxTime /\ SimpleShoot(dt) /\ UNCHANGED pc

PollSpread ==
  \E dt \in Gaps :
    n_polls < MaxPolls /\ now + dt <= MaxTime /\ SpreadShoot(dt) /\ UNCHANGED pc

PollTargeted ==
  \E dt \in Gaps :
    n_polls < MaxPolls /\ now + dt <= MaxTime /\ TargetedShoot(dt) /\ UNCHANGED pc

NextShoot == PollSimple \/ PollSpread \/ PollTargeted

SpecShoot == InitShoot /\ [][NextShoot]_vars

\* ---- the driver: per tick calc_new_pos, shoot, completed ----
StartXs == {0, 25}
DriverShipXs == {5, 40}
\* clock advance between the shoot calls of two ticks
TickGaps == {100, 250}
\* clock advance between the last shoot and the construction of the next stage
ConstructDelays == {0, 50}
Damages == {1, 3}

Init ==
  /\ stage = "Appear"
  /\ direction = "Right"
  /\ shoot_time = 0
  /\ screen = ScreenRect(ScreenWidth)
  /\ boss_pos \in [x : StartXs, y : {0}]
  /\ ship_center = [x |-> 5, y |-> ShipY]
  /\ op = "new" /\ by = stage
  /\ old_pos = boss_pos /\ old_direction = direction
  /\ now = 0 /\ shots = None /\ old_shoot_time = 0
  /\ poll = NoPoll /\ prev_poll = NoPoll /\ fired_at = <<>> /\ n_polls = 0
  /\ boss_hp = MaxHp /\ done = FALSE /\ pc = "move"
  /\ appear_ticks = 0 /\ built_at = 0 /\ spawn_pos = boss_pos

TickAppearMove == pc = "move" /\ AppearCalcNewPos /\ pc' = "shoot"

TickSimpleMove == pc = "move" /\ SimpleCalcNewPos /\ pc' = "shoot"

TickSpreadMove == pc = "move" /\ SpreadCalcNewPos /\ pc' = "shoot"

TickTargetedMove == pc = "move" /\ TargetedCalcNewPos /\ pc' = "shoot"

TickAppearShoot == pc = "shoot" /\ AppearShoot /\ pc' = "completed"

TickSimpleShoot ==
  \E dt \in TickGaps :
    pc = "shoot" /\ now + dt <= MaxTime /\ SimpleShoot(dt) /\ pc' = "completed"

TickSpreadShoot ==
  \E dt \in TickGaps :
    pc = "shoot" /\ now + dt <= MaxTime /\ SpreadShoot(dt) /\ pc' = "completed"

TickTargetedShoot ==
  \E dt \in TickGaps :
    pc = "shoot" /\ now + dt <= MaxTime /\ TargetedShoot(dt) /\ pc' = "completed"

TickAppearCompleted ==
  \E dc \in ConstructDelays : pc = "completed" /\ AppearCompleted(dc) /\ pc' = "move"

TickSimpleCompleted ==
  \E dc \in ConstructDelays : pc = "completed" /\ SimpleCompleted(dc) /\ pc' = "move"

TickSpreadCompleted ==
  \E dc \in ConstructDelays : pc = "completed" /\ SpreadCompleted(dc) /\ pc' = "move"

TickTargetedCompleted ==
  \E dc \in ConstructDelays : pc = "completed" /\ TargetedCompleted(dc) /\ pc' = "move"

BossHit == \E d \in Damages : pc = "move" /\ Damage(d) /\ UNCHANGED pc

ShipSteer == \E sx \in DriverShipXs : pc = "move" /\ ShipMoveTo(sx) /\ UNCHANGED pc

Next ==
  \/ TickAppearMove \/ TickAppearShoot \/ TickAppearCompleted
  \/ TickSimpleMove \/ TickSimpleShoot \/ TickSimpleCompleted
  \/ TickSpreadMove \/ TickSpreadShoot \/ TickSpreadCompleted
  \/ TickTargetedMove \/ TickTargetedShoot \/ TickTargetedCompleted
  \/ BossHit \/ ShipSteer

Spec == Init /\ [][Next]_vars

\* ---- AppearStage from any height up to the target ----
\* the highest start is this far above the top of the screen
MaxAbove == 30

InitAppear ==
  /\ stage = "Appear"
  /\ direction = "Right"
  /\ shoot_time = 0
  /\ screen = ScreenRect(ScreenWidth)
  /\ boss_pos \in [x : StartXs, y : (0 - MaxAbove)..APPEAR_TARGET_HEIGHT]
  /\ ship_center = [x |-> 5, y |-> ShipY]
  /\ op = "new" /\ by = stage
  /\ old_pos = boss_pos /\ old_direction = direction
  /\ now = 0 /\ shots = None /\ old_shoot_time = 0
  /\ poll = NoPoll /\ prev_poll = NoPoll /\ fired_at = <<>> /\ n_polls = 0
  /\ boss_hp = MaxHp /\ done = FALSE /\ pc = "move"
  /\ appear_ticks = 0 /\ built_at = 0 /\ spawn_pos = boss_pos

NextAppear == TickAppearMove \/ TickAppearShoot \/ TickAppearCompleted

SpecAppear == InitAppear /\ [][NextAppear]_vars

\* ---- AppearStage from any height, also below the target ----
InitAppearAny ==
  /\ stage = "Appear"
  /\ direction = "Right"
  /\ shoot_time = 0
  /\ screen = ScreenRect(ScreenWidth)
  /\ boss_pos \in [x : StartXs,
                    y : (0 - MaxAbove)..(APPEAR_TARGET_HEIGHT + 2 * APPEAR_MOVE_SPEED)]
  /\ ship_center = [x |-> 5, y |-> ShipY]
  /\ op = "new" /\ by = stage
  /\ old_pos = boss_pos /\ old_direction = direction
  /\ now = 0 /\ shots = None /\ old_shoot_time = 0
  /\ poll = NoPoll /\ prev_poll = NoPoll /\ fired_at = <<>> /\ n_polls = 0
  /\ boss_hp = MaxHp /\ done = FALSE /\ pc = "move"
  /\ appear_ticks = 0 /\ built_at = 0 /\ spawn_pos = boss_pos

SpecAppearAny == InitAppearAny /\ [][NextAppear]_vars

\* ---- SimpleShootingDown polled every 100 ms ----
\* clock advance between the construction of the stage and its first poll
FirstDelays == {0, 40, 100, 300}

InitCadence ==
  /\ stage = "Simple"
  /\ direction \in Direction
  /\ shoot_time = 0
  /\ screen = ScreenRect(ScreenWidth)
  /\ boss_pos \in [x : {0, 7, 25, 44, 50}, y : {56}]
  /\ ship_center = [x |-> 5, y |-> ShipY]
  /\ op = "new" /\ by = stage
  /\ old_pos = boss_pos /\ old_direction = direction
  /\ now = 0 /\ shots = None /\ old_shoot_time = 0
  /\ poll = NoPoll /\ prev_poll = NoPoll /\ fired_at = <<>> /\ n_polls = 0
  /\ boss_hp = MaxHp /\ done = FALSE /\ pc = "move"
  /\ appear_ticks = 0 /\ built_at = 0 /\ spawn_pos = [x |-> 0, y |-> 0]

CadenceMove == pc = "move" /\ n_polls < 10 /\ SimpleCalcNewPos /\ pc' = "shoot"

CadenceShoot ==
  \E dt \in (IF n_polls = 0 THEN FirstDelays ELSE {100}) :
    pc = "shoot" /\ SimpleShoot(dt) /\ pc' = "move"

NextCadence == CadenceMove \/ CadenceShoot

SpecCadence == InitCadence /\ [][NextCadence]_vars

\* ---------------------------- claims ----------------------------
\* the horizontal distance between the boss's centre and the ship's centre
dist_x(pos, ship_c) == abs(center(pos).x - ship_c.x)

\* C1: in the Targeted stage, when boss centre and ship centre are at least
\* 15 apart horizontally and the clamp does not change the result,
\* calc_new_pos moves x by exactly 15 toward the ship, so the distance
\* decreases by 15.
C1_StepsTowardShip ==
  [][(/\ op' = "calc_new_pos" /\ by' = "Targeted"
      /\ dist_x(boss_pos, ship_center) >= 15
      /\ screen.top_left.x < boss_pos'.x /\ boss_pos'.x < screen.bottom_right.x)
     => /\ boss_pos'.x = boss_pos.x
                          + (IF ship_center.x > center(boss_pos).x THEN 15 ELSE -15)
        /\ dist_x(boss_pos', ship_center) = dist_x(boss_pos, ship_center) - 15]_vars

\* C2 as stated: after any number of move_horizontally calls from a position
\* inside the screen, the boss shape is inside the screen.
C2_AlwaysInScreen == in_rect(boss_pos, screen)

\* C2 amended: the same, on a screen whose slack is at least twice the move
\* speed minus one.
C2_InScreenWhenRoom ==
  slack(screen) >= 2 * move_speed_of(stage) - 1 => in_rect(boss_pos, screen)

\* a bounce has happened on a screen with room: the direction was flipped
C2_Witness ==
  /\ op = "calc_new_pos"
  /\ slack(screen) >= 2 * move_speed_of(stage) - 1
  /\ direction # old_direction
  /\ in_rect(boss_pos, screen)

\* C5: after a Targeted calc_new_pos, for every ship and boss position, the
\* returned x is within the screen's horizontal bounds and y is unchanged.
C5_ClampedX ==
  (op = "calc_new_pos" /\ by = "Targeted")
  => /\ screen.top_left.x <= boss_pos.x
     /\ boss_pos.x <= screen.bottom_right.x
     /\ boss_pos.y = old_pos.y

\* the ship is far outside the screen and the clamp changed the result
C5_Witness ==
  /\ op = "calc_new_pos" /\ by = "Targeted"
  /\ ship_center.x > screen.bottom_right.x + 10 * Margin
  /\ Targeted_track(old_pos, ship_center) < screen.top_left.x
  /\ boss_pos.x = screen.top_left.x

\* C6: a Targeted calc_new_pos given a boss shape horizontally inside the
\* screen returns a position whose shape is horizontally inside the screen.
C6_StaysOnScreen ==
  (op = "calc_new_pos" /\ by = "Targeted" /\ in_rect_x(old_pos.x, screen))
  => in_rect_x(boss_pos.x, screen)

\* the interval the claims name for each stage
ClaimedInterval == IF by = "Simple" THEN 300 ELSE 500

\* C3: any two polls of one stage instance that both fire are at least the
\* stage's interval apart (300, 500, 500 ms), and two consecutive polls less
\* than the interval apart do not both fire.
C3_FiresIntervalApart ==
  /\ \A i, j \in 1..Len(fired_at) :
        i < j => fired_at[j] - fired_at[i] >= ClaimedInterval
  /\ (n_polls >= 2 /\ poll.t - prev_poll.t < ClaimedInterval)
       => ~(poll.fired /\ prev_poll.fired)

\* the stage fired, was polled again too early, and fired again exactly one
\* interval after the first firing
C3_Witness ==
  /\ Len(fired_at) >= 2
  /\ fired_at[2] - fired_at[1] = ClaimedInterval
  /\ n_polls >= 2 /\ poll.fired /\ ~prev_poll.fired
  /\ poll.t - prev_poll.t < ClaimedInterval

\* C4: a shoot_down poll made at least the interval after the previous poll
\* of the same stage returns exactly one projectile and leaves shoot_time
\* equal to the time of this poll.
C4_LaterPollFires ==
  (/\ op = "shoot" /\ by \in {"Simple", "Targeted"}
   /\ n_polls >= 2 /\ poll.t - prev_poll.t >= ClaimedInterval)
  => /\ shots.some /\ Len(shots.v) = 1
     /\ shoot_time = poll.t /\ poll.t = now

\* the earlier poll did not fire, the later one came late and fired: the
\* stored time is the poll's, which is not last-fire + interval
C4_Witness ==
  /\ op = "shoot" /\ by \in {"Simple", "Targeted"}
  /\ n_polls >= 2 /\ poll.t - prev_poll.t >= ClaimedInterval
  /\ ~prev_poll.fired
  /\ shots.some
  /\ shoot_time > old_shoot_time + ClaimedInterval

\* the angles of the shots of a result
angles_of(ret) == [i \in 1..Len(ret.v) |-> ret.v[i].angle]

\* C8: every firing of SpreadShooting::shoot returns 120/20 + 1 = 7 shots with
\* angles 120, 140, ..., 240 in that order, symmetric about 180.
C8_SpreadFan ==
  (op = "shoot" /\ by = "Spread" /\ shots.some)
  => /\ Len(shots.v) = 120 \div 20 + 1
     /\ angles_of(shots) = <<120, 140, 160, 180, 200, 220, 240>>
     /\ \A i \in 1..Len(shots.v) :
           shots.v[i].angle + shots.v[Len(shots.v) + 1 - i].angle = 2 * 180

\* SpreadShooting has fired for the second time
C8_Witness ==
  /\ op = "shoot" /\ by = "Spread" /\ shots.some
  /\ Len(fired_at) >= 2

\* C7: SimpleShootingDown::completed is true iff the health fraction is
\* strictly below 0.7 and SpreadShooting::completed iff it is strictly below
\* 0.4; as health never rises, a fraction below a threshold stays below it.
C7_CompletedThresholds ==
  [][/\ (op' = "completed" /\ by' = "Simple")
          => (done' <=> boss_hp' * 10 < 7 * MaxHp)
     /\ (op' = "completed" /\ by' = "Spread")
          => (done' <=> boss_hp' * 10 < 4 * MaxHp)
     /\ (boss_hp * 10 < 7 * MaxHp => boss_hp' * 10 < 7 * MaxHp)
     /\ (boss_hp * 10 < 4 * MaxHp => boss_hp' * 10 < 4 * MaxHp)]_vars

\* SimpleShootingDown::completed returned false at the lowest health that is
\* not below 0.7 (with MaxHp = 10: at exactly 0.7)
C7_Witness ==
  /\ op = "completed" /\ by = "Simple" /\ ~done
  /\ boss_hp < MaxHp
  /\ boss_hp * 10 >= 7 * MaxHp
  /\ (boss_hp - 1) * 10 < 7 * MaxHp

\* C9: from y0 <= 50 AppearStage::completed is first true after exactly
\* (50 - y0) / 8 + 1 ticks; from y0 = 0 that is tick 7, with y = 56.
C9_AppearTicks ==
  (op = "completed" /\ by = "Appear")
  => /\ done <=> appear_ticks = (50 - spawn_pos.y) \div 8 + 1
     /\ ~done => appear_ticks < (50 - spawn_pos.y) \div 8 + 1
     /\ spawn_pos.y = 0 => /\ boss_pos.y = 8 * appear_ticks
                            /\ done <=> appear_ticks = 7

\* the boss that started at y = 0 completed the stage on tick 7 at y = 56
C9_Witness ==
  /\ op = "completed" /\ by = "Appear" /\ done
  /\ spawn_pos.y = 0 /\ appear_ticks = 7 /\ boss_pos.y = 56

\* C10: a new SimpleShootingDown polled every 100 ms has fired 3 or 4 times
\* after 10 polls, one shot per firing poll, spawned at the boss's centre at
\* that poll with angle 180 and damage 10.
C10_TenPolls ==
  /\ n_polls = 10 => Len(fired_at) \in {3, 4}
  /\ (op = "shoot" /\ shots.some)
       => /\ Len(shots.v) = 1
          /\ shots.v[1] = [pos |-> [x |-> boss_pos.x + BossWidth \div 2,
                                    y |-> boss_pos.y + BossWidth \div 2],
                            angle |-> 180, damage |-> 10]

\* the tenth poll fired the third shot, after the boss had moved
C10_Witness ==
  /\ n_polls = 10 /\ Len(fired_at) = 3
  /\ op = "shoot" /\ shots.some
  /\ boss_pos # old_pos

\* C11: under the driver and a health that never rises the active stage only
\* advances Appear -> SimpleShootingDown -> SpreadShooting -> Targeted, one
\* stage at a time and only when completed returned true; Targeted::completed
\* is never true, so Targeted stays active.
C11_StageOrder ==
  [][/\ stage' # stage
          => /\ <<stage, stage'>> \in {<<"Appear", "Simple">>, <<"Simple", "Spread">>,
                                       <<"Spread", "Targeted">>}
             /\ op' = "completed" /\ by' = stage /\ done'
     /\ (op' = "completed" /\ by' = "Targeted") => ~done'
     /\ stage = "Targeted" => stage' = "Targeted"]_vars

\* Targeted was asked whether it is completed when the boss had no health left
C11_Witness ==
  /\ stage = "Targeted" /\ op = "completed" /\ by = "Targeted"
  /\ ~done /\ boss_hp = 0

\* C12: a shoot_down or SpreadShooting::shoot poll made before last-fire +
\* interval returns no projectile and leaves shoot_time and direction as
\* they were.
C12_EarlyPollNoChange ==
  [][(op' = "shoot" /\ by' \in {"Simple", "Spread", "Targeted"}
      /\ now' < shoot_time + (IF by' = "Simple" THEN 300 ELSE 500))
     => /\ shots' = None
        /\ shoot_time' = shoot_time
        /\ direction' = direction]_vars

\* the stage has fired and a later poll came before the interval had passed
C12_Witness ==
  /\ op = "shoot" /\ ~shots.some
  /\ Len(fired_at) >= 1
  /\ now > shoot_time /\ now < shoot_time + ClaimedInterval
  /\ shoot_time = old_shoot_time

\* the speed the claims name for each bouncing stage
ClaimedSpeed == IF by = "Simple" THEN 12 ELSE 8

\* the offset the last move_horizontally call applied first
ClaimedOffset == IF old_direction = "Left" THEN -ClaimedSpeed ELSE ClaimedSpeed

\* the candidate of the last move_horizontally call puts the shape outside
CandidateOutside ==
  ~in_rect([x |-> old_pos.x + ClaimedOffset, y |-> old_pos.y], screen)

\* C13: move_horizontally flips the direction iff the candidate (x plus the
\* signed speed) puts the shape outside the screen; then it returns x minus
\* the signed speed; otherwise it returns the candidate and keeps the
\* direction.
C13_FlipIffOutside ==
  (op = "calc_new_pos" /\ by \in {"Simple", "Spread"})
  => /\ direction # old_direction <=> CandidateOutside
     /\ CandidateOutside => boss_pos.x = old_pos.x - ClaimedOffset
     /\ ~CandidateOutside => /\ boss_pos.x = old_pos.x + ClaimedOffset
                              /\ direction = old_direction

\* a candidate past the right edge was rejected and mirrored
C13_Witness ==
  /\ op = "calc_new_pos" /\ by \in {"Simple", "Spread"}
  /\ CandidateOutside
  /\ old_direction = "Right" /\ direction = "Left"
  /\ boss_pos.x = old_pos.x - ClaimedSpeed

\* C14: every move_horizontally call of SimpleShootingDown (speed 12) and
\* SpreadShooting (speed 8) returns an x exactly the speed away from the
\* current x, also on a bounce, and the current y.
C14_FullStep ==
  (op = "calc_new_pos" /\ by \in {"Simple", "Spread"})
  => /\ abs(boss_pos.x - old_pos.x) = ClaimedSpeed
     /\ boss_pos.y = old_pos.y

\* a bounce off the left edge moved the boss a full step to the right
C14_Witness ==
  /\ op = "calc_new_pos" /\ by \in {"Simple", "Spread"}
  /\ old_direction = "Left" /\ direction = "Right"
  /\ boss_pos.x = old_pos.x + ClaimedSpeed

\* C15: in the Targeted stage, with the ship staying where the boss can be
\* centred over it inside the screen, repeated calc_new_pos from any
\* in-screen position eventually puts the boss centre on the ship centre's x,
\* and it stays there.
C15_EventuallyAligned == <>[](center(boss_pos).x = ship_center.x)

\* C16: in the Targeted stage, when boss centre and ship centre are less
\* than 15 apart horizontally, calc_new_pos returns ship_centre.x - width / 2
\* clamped to the screen's horizontal bounds; when that value is within the
\* bounds the boss centre at the returned position is on the ship centre's x.
C16_Snap ==
  (op = "calc_new_pos" /\ by = "Targeted" /\ dist_x(old_pos, ship_center) < 15)
  => LET snap == ship_center.x - BossWidth \div 2
         lo == screen.top_left.x
         hi == screen.bottom_right.x
     IN  /\ boss_pos.x = (IF snap < lo THEN lo ELSE IF snap > hi THEN hi ELSE snap)
         /\ (lo <= snap /\ snap <= hi) => center(boss_pos).x = ship_center.x

\* a boss between 1 and 14 off the ship was snapped onto it
C16_Witness ==
  /\ op = "calc_new_pos" /\ by = "Targeted"
  /\ dist_x(old_pos, ship_center) \in 1..14
  /\ boss_pos.x # old_pos.x
  /\ center(boss_pos).x = ship_center.x

\* C17: AppearStage never fires, never changes x, adds exactly 8 to y on a
\* tick where y <= 50 and returns the position unchanged where y > 50; a
\* boss that starts at y <= 50 never gets a y above 58 from it.
C17_AppearOnlyDescends ==
  /\ (op = "shoot" /\ by = "Appear") => (~shots.some /\ shots.v = <<>>)
  /\ (op = "calc_new_pos" /\ by = "Appear")
       => /\ boss_pos.x = old_pos.x
          /\ old_pos.y <= 50 => boss_pos.y = old_pos.y + 8
          /\ old_pos.y > 50 => boss_pos = old_pos
  /\ (by = "Appear" /\ spawn_pos.y <= 50) => boss_pos.y <= 58

\* calc_new_pos was called below the target and returned the position as is
C17_Witness ==
  /\ op = "calc_new_pos" /\ by = "Appear"
  /\ old_pos.y > 50 /\ boss_pos = old_pos

\* C18: when boss centre and ship centre have the same x and the boss's x is
\* within the screen's horizontal bounds, Targeted::calc_new_pos returns the
\* boss's position unchanged.
C18_AlignedFixedPoint ==
  (/\ op = "calc_new_pos" /\ by = "Targeted"
   /\ old_pos.x + BossWidth \div 2 = ship_center.x
   /\ screen.top_left.x <= old_pos.x /\ old_pos.x <= screen.bottom_right.x)
  => boss_pos = old_pos

\* calc_new_pos was called on an aligned boss within the bounds and returned
\* its position
C18_Witness ==
  /\ op = "calc_new_pos" /\ by = "Targeted"
  /\ old_pos.x + BossWidth \div 2 = ship_center.x
  /\ screen.top_left.x <= old_pos.x /\ old_pos.x <= screen.bottom_right.x
  /\ boss_pos = old_pos

\* the interval the claims name for the active stage
ClaimedStageInterval == IF stage = "Simple" THEN 300 ELSE 500

\* C19: a newly constructed SimpleShootingDown, SpreadShooting or Targeted
\* starts with shoot_time at its construction time and direction Right; no
\* poll earlier than one interval after the construction fires, and the first
\* poll at or after construction + interval fires.
C19_FreshStage ==
  /\ (op = "completed" /\ done)
       => (shoot_time = built_at /\ built_at = now /\ direction = "Right")
  /\ (stage # "Appear" /\ fired_at = <<>>) => shoot_time = built_at
  /\ stage # "Appear"
       => \A i \in 1..Len(fired_at) : fired_at[i] >= built_at + ClaimedStageInterval
  /\ (/\ op = "shoot" /\ by = stage /\ stage # "Appear"
      /\ poll.t >= built_at + ClaimedStageInterval
      /\ (n_polls = 1 \/ prev_poll.t < built_at + ClaimedStageInterval))
       => poll.fired

\* a SpreadShooting constructed during the fight was polled too early, then
\* fired on its first poll after the interval
C19_Witness ==
  /\ op = "shoot" /\ stage = "Spread" /\ by = "Spread"
  /\ built_at > 0 /\ n_polls >= 2
  /\ prev_poll.t < built_at + 500 /\ ~prev_poll.fired
  /\ poll.t >= built_at + 500 /\ poll.fired
  /\ fired_at = <<poll.t>>
====
